---------------------------- MODULE Spec2Model ----------------------------
(***************************************************************************)
(* A model of the instruction-building HTTP service of src/src/main.rs:    *)
(* six stateless handlers (generate_keypair, create_token, mint_token,     *)
(* verify_message, send_sol, send_token), each a function of its request.  *)
(*                                                                         *)
(* Text is a sequence of one-character strings, a byte string a sequence   *)
(* of numbers 0..255, and a u64 a tuple of four 16-bit limbs, least        *)
(* significant first (TLC's integers are 32 bits wide).  The base-58 and   *)
(* base64 codecs are computed the way the bs58 and base64 crates compute   *)
(* them.  The ed25519 curve arithmetic is not computed: point              *)
(* decompression and signature verification are tables of facts about the  *)
(* sample keys and signatures, worked out with the RFC 8032 equations.     *)
(***************************************************************************)
EXTENDS Integers, Sequences, FiniteSets, TLC

VARIABLES
    pc,        \* "idle": waiting for a request; "replied": a handler has run
    handler,   \* the handler that served the request ("none" while idle)
    request,   \* the deserialized request payload
    response,  \* the (status, JSON body) pair the handler returned
    calls      \* the library calls the handler made, in order

vars == <<pc, handler, request, response, calls>>

(***************************************************************************)
(* Bounds of the model.                                                    *)
(***************************************************************************)
\* decimals is drawn from 0..MaxSmallDecimals and the top value 255
MaxSmallDecimals == 2
\* amounts are drawn from 0..MaxSmallAmount and a few large values
MaxSmallAmount == 1

(***************************************************************************)
(* Alphabets and sample data.                                              *)
(***************************************************************************)
B58_ALPHABET ==
    <<"1", "2", "3", "4", "5", "6", "7", "8", "9", "A", "B", "C", "D", "E",
    "F", "G", "H", "J", "K", "L", "M", "N", "P", "Q", "R", "S", "T", "U",
    "V", "W", "X", "Y", "Z", "a", "b", "c", "d", "e", "f", "g", "h", "i",
    "j", "k", "m", "n", "o", "p", "q", "r", "s", "t", "u", "v", "w", "x",
    "y", "z">>

B64_ALPHABET ==
    <<"A", "B", "C", "D", "E", "F", "G", "H", "I", "J", "K", "L", "M", "N",
    "O", "P", "Q", "R", "S", "T", "U", "V", "W", "X", "Y", "Z", "a", "b",
    "c", "d", "e", "f", "g", "h", "i", "j", "k", "l", "m", "n", "o", "p",
    "q", "r", "s", "t", "u", "v", "w", "x", "y", "z", "0", "1", "2", "3",
    "4", "5", "6", "7", "8", "9", "+", "/">>

TOKEN_PROGRAM_TEXT ==
    <<"T", "o", "k", "e", "n", "k", "e", "g", "Q", "f", "e", "Z", "y", "i",
    "N", "w", "A", "J", "b", "N", "b", "G", "K", "P", "F", "X", "C", "W",
    "u", "B", "v", "f", "9", "S", "s", "6", "2", "3", "V", "Q", "5", "D",
    "A">>

SystemProgramBytes ==
    <<0, 0, 0, 0, 0, 0, 0, 0, 0, 0, 0, 0, 0, 0, 0, 0, 0, 0, 0, 0, 0, 0, 0,
    0, 0, 0, 0, 0, 0, 0, 0, 0>>

Seed1 ==
    <<1, 2, 3, 4, 5, 6, 7, 8, 9, 10, 11, 12, 13, 14, 15, 16, 17, 18, 19, 20,
    21, 22, 23, 24, 25, 26, 27, 28, 29, 30, 31, 32>>

Public1 ==
    <<121, 181, 86, 46, 143, 230, 84, 249, 64, 120, 177, 18, 232, 169, 139,
    167, 144, 31, 133, 58, 230, 149, 190, 215, 224, 227, 145, 11, 173, 4,
    150, 100>>

Seed2 ==
    <<7, 7, 7, 7, 7, 7, 7, 7, 7, 7, 7, 7, 7, 7, 7, 7, 7, 7, 7, 7, 7, 7, 7,
    7, 7, 7, 7, 7, 7, 7, 7, 7>>

Public2 ==
    <<234, 74, 108, 99, 226, 156, 82, 10, 190, 245, 80, 123, 19, 46, 197,
    249, 149, 71, 118, 174, 190, 190, 123, 146, 66, 30, 234, 105, 20, 70,
    210, 44>>

OffCurveBytes ==
    <<2, 0, 0, 0, 0, 0, 0, 0, 0, 0, 0, 0, 0, 0, 0, 0, 0, 0, 0, 0, 0, 0, 0,
    0, 0, 0, 0, 0, 0, 0, 0, 0>>

Sig1 ==
    <<200, 251, 228, 157, 252, 234, 56, 236, 179, 109, 45, 16, 86, 220, 216,
    196, 31, 196, 197, 126, 202, 15, 70, 13, 56, 231, 81, 178, 94, 25, 64,
    91, 61, 168, 102, 232, 92, 146, 53, 72, 225, 81, 245, 234, 175, 100,
    217, 79, 182, 58, 74, 21, 154, 235, 89, 116, 56, 89, 5, 16, 42, 86, 53,
    1>>

Sig2 ==
    <<41, 19, 180, 27, 39, 95, 142, 10, 237, 5, 197, 254, 132, 141, 215, 2,
    102, 22, 3, 233, 164, 35, 187, 37, 179, 231, 178, 208, 8, 97, 39, 227,
    64, 149, 115, 101, 57, 104, 41, 249, 27, 85, 218, 161, 89, 220, 83, 154,
    175, 68, 84, 122, 8, 3, 45, 161, 248, 21, 121, 65, 249, 85, 34, 1>>

GROUP_ORDER_LE ==
    <<237, 211, 245, 92, 26, 99, 18, 88, 214, 156, 247, 162, 222, 249, 222,
    20, 0, 0, 0, 0, 0, 0, 0, 0, 0, 0, 0, 0, 0, 0, 0, 16>>

SystemProgramText ==
    <<"1", "1", "1", "1", "1", "1", "1", "1", "1", "1", "1", "1", "1", "1",
    "1", "1", "1", "1", "1", "1", "1", "1", "1", "1", "1", "1", "1", "1",
    "1", "1", "1", "1">>

Key1Text ==
    <<"9", "C", "6", "h", "y", "b", "h", "Q", "6", "A", "y", "c", "e", "p",
    "9", "j", "a", "U", "n", "P", "6", "u", "L", "9", "Z", "Y", "v", "D",
    "j", "U", "p", "1", "a", "S", "k", "F", "W", "P", "U", "F", "J", "t",
    "p", "j">>

Key2Text ==
    <<"G", "m", "a", "D", "r", "p", "p", "B", "C", "7", "P", "5", "A", "R",
    "K", "V", "8", "g", "3", "d", "j", "i", "w", "P", "8", "9", "v", "z",
    "1", "j", "L", "K", "2", "3", "V", "2", "G", "B", "j", "u", "A", "E",
    "G", "B">>

OffCurveText ==
    <<"8", "o", "p", "H", "z", "T", "A", "n", "f", "z", "R", "p", "P", "E",
    "x", "2", "1", "X", "t", "n", "r", "V", "T", "X", "2", "8", "Y", "Q",
    "u", "C", "p", "A", "j", "c", "n", "1", "P", "c", "z", "S", "c", "K",
    "h">>

TooLongText ==
    <<"1", "1", "1", "1", "1", "1", "1", "1", "1", "1", "1", "1", "1", "1",
    "1", "1", "1", "1", "1", "1", "1", "1", "1", "1", "1", "1", "1", "1",
    "1", "1", "1", "1", "1", "1", "1", "1", "1", "1", "1", "1", "1", "1",
    "1", "1", "1">>

Sig1Text ==
    <<"y", "P", "v", "k", "n", "f", "z", "q", "O", "O", "y", "z", "b", "S",
    "0", "Q", "V", "t", "z", "Y", "x", "B", "/", "E", "x", "X", "7", "K",
    "D", "0", "Y", "N", "O", "O", "d", "R", "s", "l", "4", "Z", "Q", "F",
    "s", "9", "q", "G", "b", "o", "X", "J", "I", "1", "S", "O", "F", "R",
    "9", "e", "q", "v", "Z", "N", "l", "P", "t", "j", "p", "K", "F", "Z",
    "r", "r", "W", "X", "Q", "4", "W", "Q", "U", "Q", "K", "l", "Y", "1",
    "A", "Q", "=", "=">>

Sig2Text ==
    <<"K", "R", "O", "0", "G", "y", "d", "f", "j", "g", "r", "t", "B", "c",
    "X", "+", "h", "I", "3", "X", "A", "m", "Y", "W", "A", "+", "m", "k",
    "I", "7", "s", "l", "s", "+", "e", "y", "0", "A", "h", "h", "J", "+",
    "N", "A", "l", "X", "N", "l", "O", "W", "g", "p", "+", "R", "t", "V",
    "2", "q", "F", "Z", "3", "F", "O", "a", "r", "0", "R", "U", "e", "g",
    "g", "D", "L", "a", "H", "4", "F", "X", "l", "B", "+", "V", "U", "i",
    "A", "Q", "=", "=">>

Sig1FlippedText ==
    <<"y", "f", "v", "k", "n", "f", "z", "q", "O", "O", "y", "z", "b", "S",
    "0", "Q", "V", "t", "z", "Y", "x", "B", "/", "E", "x", "X", "7", "K",
    "D", "0", "Y", "N", "O", "O", "d", "R", "s", "l", "4", "Z", "Q", "F",
    "s", "9", "q", "G", "b", "o", "X", "J", "I", "1", "S", "O", "F", "R",
    "9", "e", "q", "v", "Z", "N", "l", "P", "t", "j", "p", "K", "F", "Z",
    "r", "r", "W", "X", "Q", "4", "W", "Q", "U", "Q", "K", "l", "Y", "1",
    "A", "Q", "=", "=">>

Sig1HighSText ==
    <<"y", "P", "v", "k", "n", "f", "z", "q", "O", "O", "y", "z", "b", "S",
    "0", "Q", "V", "t", "z", "Y", "x", "B", "/", "E", "x", "X", "7", "K",
    "D", "0", "Y", "N", "O", "O", "d", "R", "s", "l", "4", "Z", "Q", "F",
    "s", "9", "q", "G", "b", "o", "X", "J", "I", "1", "S", "O", "F", "R",
    "9", "e", "q", "v", "Z", "N", "l", "P", "t", "j", "p", "K", "F", "Z",
    "r", "r", "W", "X", "Q", "4", "W", "Q", "U", "Q", "K", "l", "Y", "1",
    "/", "w", "=", "=">>

ShortSigText ==
    <<"y", "P", "v", "k", "n", "f", "z", "q", "O", "O", "y", "z", "b", "S",
    "0", "Q", "V", "t", "z", "Y", "x", "B", "/", "E", "x", "X", "7", "K",
    "D", "0", "Y", "N", "O", "O", "d", "R", "s", "l", "4", "Z", "Q", "F",
    "s", "9", "q", "G", "b", "o", "X", "J", "I", "1", "S", "O", "F", "R",
    "9", "e", "q", "v", "Z", "N", "l", "P", "t", "j", "p", "K", "F", "Z",
    "r", "r", "W", "X", "Q", "4", "W", "Q", "U", "Q", "K", "l", "Y", "1">>

\* The sample byte strings that decompress to a point of the curve
\* (y = 0 does: x^2 = -1 has a root mod 2^255 - 19; y = 2 does not).
CurvePointEncodings == {Public1, Public2, SystemProgramBytes}

\* The (public key, message bytes, signature) triples over the samples for
\* which R = [s]B - [H(R, A, M)]A holds.
VerifyingTriples ==
    { <<Public1, <<104, 105>>, Sig1>>, <<Public2, <<104, 111>>, Sig2>> }

\* The keypairs the random source may produce: (seed, derived public key).
KeypairSamples ==
    { [secret |-> Seed1, public |-> Public1],
      [secret |-> Seed2, public |-> Public2] }

BadCharText == <<"0", "O", "I", "l">>
ShortText == <<"a", "b", "c">>
BadBase64Text == <<"!", "!", "!", "!">>
UnpaddedBase64Text == <<"Q", "U", "I">>

(***************************************************************************)
(* Sequences of digits.                                                    *)
(***************************************************************************)
Reverse(s) == [i \in 1..Len(s) |-> s[Len(s) + 1 - i]]

Zeros(n) == [i \in 1..n |-> 0]

RECURSIVE LeadingCount(_, _)
\* the number of leading elements of s equal to x
LeadingCount(s, x) ==
    IF s = <<>> \/ s[1] # x THEN 0 ELSE 1 + LeadingCount(Tail(s), x)

RECURSIVE Carry(_, _, _, _)
\* One pass of the long multiplication of both bs58 loops: each digit d
\* (least significant first) becomes (d * mul + carry) % base, the carry
\* moves on, and what is left of it is appended digit by digit.
Carry(digits, carry, mul, base) ==
    IF digits = <<>>
    THEN IF carry = 0 THEN <<>>
         ELSE <<carry % base>> \o Carry(<<>>, carry \div base, mul, base)
    ELSE LET v == digits[1] * mul + carry
         IN  <<v % base>> \o Carry(Tail(digits), v \div base, mul, base)

(***************************************************************************)
(* bs58: decode(text).into_vec() and encode(bytes).into_string().          *)
(***************************************************************************)
B58Value ==
    [c \in {B58_ALPHABET[i] : i \in 1..58} |->
        (CHOOSE i \in 1..58 : B58_ALPHABET[i] = c) - 1]

RECURSIVE B58DecodeDigits(_, _, _)
B58DecodeDigits(text, i, out) ==
    IF i > Len(text) THEN out
    ELSE B58DecodeDigits(text, i + 1, Carry(out, B58Value[text[i]], 58, 256))

bs58_decode(text) ==
    IF \E i \in 1..Len(text) : text[i] \notin DOMAIN B58Value
    THEN [ok |-> FALSE, bytes |-> <<>>]
    ELSE [ok |-> TRUE,
          bytes |-> Reverse(B58DecodeDigits(text, 1, <<>>)
                            \o Zeros(LeadingCount(text, "1")))]

RECURSIVE B58EncodeDigits(_, _, _)
B58EncodeDigits(bytes, i, out) ==
    IF i > Len(bytes) THEN out
    ELSE B58EncodeDigits(bytes, i + 1, Carry(out, bytes[i], 256, 58))

bs58_encode(bytes) ==
    LET digits == B58EncodeDigits(bytes, 1, <<>>)
                  \o Zeros(LeadingCount(bytes, 0))
    IN  Reverse([i \in 1..Len(digits) |-> B58_ALPHABET[digits[i] + 1]])

(***************************************************************************)
(* base64: general_purpose::STANDARD (padded, canonical).                  *)
(***************************************************************************)
B64Value ==
    [c \in {B64_ALPHABET[i] : i \in 1..64} |->
        (CHOOSE i \in 1..64 : B64_ALPHABET[i] = c) - 1]

RECURSIVE base64_encode(_)
base64_encode(bytes) ==
    LET n == Len(bytes)
        ch(v) == B64_ALPHABET[v + 1]
    IN  IF n = 0 THEN <<>>
        ELSE IF n = 1
        THEN <<ch(bytes[1] \div 4), ch((bytes[1] % 4) * 16), "=", "=">>
        ELSE IF n = 2
        THEN <<ch(bytes[1] \div 4),
               ch((bytes[1] % 4) * 16 + bytes[2] \div 16),
               ch((bytes[2] % 16) * 4), "=">>
        ELSE <<ch(bytes[1] \div 4),
               ch((bytes[1] % 4) * 16 + bytes[2] \div 16),
               ch((bytes[2] % 16) * 4 + bytes[3] \div 64),
               ch(bytes[3] % 64)>> \o base64_encode(SubSeq(bytes, 4, n))

RECURSIVE B64DecodeSextets(_)
\* the bytes of a run of sextets; a last group of 2 or 3 sextets gives 1 or 2
B64DecodeSextets(s) ==
    LET n == Len(s)
    IN  IF n < 2 THEN <<>>
        ELSE IF n = 2 THEN <<s[1] * 4 + s[2] \div 16>>
        ELSE IF n = 3
        THEN <<s[1] * 4 + s[2] \div 16, (s[2] % 16) * 16 + s[3] \div 4>>
        ELSE <<s[1] * 4 + s[2] \div 16, (s[2] % 16) * 16 + s[3] \div 4,
               (s[3] % 4) * 64 + s[4]>> \o B64DecodeSextets(SubSeq(s, 5, n))

base64_decode(text) ==
    LET n == Len(text)
        pad == IF n >= 2 /\ text[n] = "=" /\ text[n - 1] = "=" THEN 2
               ELSE IF n >= 1 /\ text[n] = "=" THEN 1 ELSE 0
        body == SubSeq(text, 1, n - pad)
        m == Len(body)
        wellFormed ==
            /\ n % 4 = 0
            /\ \A i \in 1..m : body[i] \in DOMAIN B64Value
            /\ pad = 2 => B64Value[body[m]] % 16 = 0
            /\ pad = 1 => B64Value[body[m]] % 4 = 0
    IN  IF ~wellFormed THEN [ok |-> FALSE, bytes |-> <<>>]
        ELSE [ok |-> TRUE,
              bytes |-> B64DecodeSextets([i \in 1..m |-> B64Value[body[i]]])]

(***************************************************************************)
(* u64 amounts: four 16-bit limbs, least significant first.                *)
(***************************************************************************)
U64(n) == <<n, 0, 0, 0>>

U64_MAX == <<65535, 65535, 65535, 65535>>

\* 0x0102030405060708: every byte differs, so a byte order shows
U64_MIXED == <<1800, 1286, 772, 258>>

\* Variant of to_le_bytes: the bytes most significant first.
to_be_bytes(a) ==
    <<a[4] \div 256, a[4] % 256, a[3] \div 256, a[3] % 256,
      a[2] \div 256, a[2] % 256, a[1] \div 256, a[1] % 256>>

to_le_bytes(a) ==
    <<a[1] % 256, a[1] \div 256, a[2] % 256, a[2] \div 256,
      a[3] % 256, a[3] \div 256, a[4] % 256, a[4] \div 256>>

from_le_bytes(b) ==
    <<b[1] + 256 * b[2], b[3] + 256 * b[4],
      b[5] + 256 * b[6], b[7] + 256 * b[8]>>

(***************************************************************************)
(* solana_sdk and ed25519_dalek calls the handlers make.                   *)
(***************************************************************************)
\* Pubkey::from_str: at most 44 characters, base-58, exactly 32 bytes
Pubkey_from_str(s) ==
    IF Len(s) > 44 THEN [ok |-> FALSE, bytes |-> <<>>]
    ELSE LET d == bs58_decode(s)
         IN  IF d.ok /\ Len(d.bytes) = 32 THEN d
             ELSE [ok |-> FALSE, bytes |-> <<>>]

\* Pubkey's Display: the base-58 text of its 32 bytes
Pubkey_to_string(pk) == bs58_encode(pk)

AccountMeta_new(pubkey, is_signer) ==
    [pubkey |-> pubkey, is_signer |-> is_signer, is_writable |-> TRUE]

AccountMeta_new_readonly(pubkey, is_signer) ==
    [pubkey |-> pubkey, is_signer |-> is_signer, is_writable |-> FALSE]

\* PublicKey::from_bytes: 32 bytes that decompress to a curve point
DalekPublicKey_from_bytes(bytes) ==
    IF Len(bytes) = 32 /\ bytes \in CurvePointEncodings
    THEN [ok |-> TRUE, key |-> bytes]
    ELSE [ok |-> FALSE, key |-> <<>>]

RECURSIVE LessLE(_, _, _)
\* a < b for little-endian byte strings of one length, compared from byte i down
LessLE(a, b, i) ==
    IF i = 0 THEN FALSE
    ELSE IF a[i] # b[i] THEN a[i] < b[i]
    ELSE LessLE(a, b, i - 1)

\* Signature::from_bytes: 64 bytes whose scalar half s is canonical (top
\* four bits clear, or else s below the group order)
DalekSignature_from_bytes(bytes) ==
    IF Len(bytes) # 64 THEN [ok |-> FALSE, sig |-> <<>>]
    ELSE LET s == SubSeq(bytes, 33, 64)
         IN  IF s[32] \div 16 = 0 \/ LessLE(s, GROUP_ORDER_LE, 32)
             THEN [ok |-> TRUE, sig |-> bytes]
             ELSE [ok |-> FALSE, sig |-> <<>>]

\* PublicKey::verify(message, signature).is_ok()
DalekVerify(key, message, sig) == <<key, message, sig>> \in VerifyingTriples

\* str::as_bytes for the characters of the sample messages
as_bytes(s) ==
    [i \in 1..Len(s) |->
        CASE s[i] = "h" -> 104 [] s[i] = "i" -> 105 [] s[i] = "o" -> 111]

(***************************************************************************)
(* The response envelope.                                                  *)
(***************************************************************************)
\* Variant of BadRequest: the error body under the default status.
BadRequestStatusOk(msg, made) ==
    [status |-> 200, body |-> [success |-> FALSE, error |-> msg],
     calls |-> made]

\* (StatusCode::BAD_REQUEST, Json(json!({"success": false, "error": msg})))
BadRequest(msg, made) ==
    [status |-> 400, body |-> [success |-> FALSE, error |-> msg],
     calls |-> made]

\* (StatusCode::OK, Json(json!({"success": true, "data": data})))
Ok(data, made) ==
    [status |-> 200, body |-> [success |-> TRUE, data |-> data],
     calls |-> made]

\* acc -> AccountMetaInfo { pubkey: acc.pubkey.to_string(), .. }
AccountMetaInfo(accounts) ==
    [i \in 1..Len(accounts) |->
        [pubkey |-> Pubkey_to_string(accounts[i].pubkey),
         is_signer |-> accounts[i].is_signer,
         is_writable |-> accounts[i].is_writable]]

\* Pubkey::from_str("Tokenkeg...").unwrap()
TokenProgramId == Pubkey_from_str(TOKEN_PROGRAM_TEXT).bytes

\* system_program::id()
SystemProgramId == SystemProgramBytes

(***************************************************************************)
(* generate_keypair                                                        *)
(***************************************************************************)
\* keypair is what Keypair::new() drew from the random source
generate_keypair(keypair) ==
    Ok([pubkey |-> Pubkey_to_string(keypair.public),
        secret |-> base64_encode(keypair.secret \o keypair.public)],
       <<"Keypair::new">>)

(***************************************************************************)
(* create_token                                                            *)
(***************************************************************************)
create_token_accounts(mint, mint_authority) ==
    <<AccountMeta_new(mint, TRUE),
      AccountMeta_new_readonly(mint_authority, TRUE)>>

\* Variant of create_token_data: the freeze-authority marker left out.
create_token_data_no_marker(decimals, mint_authority) ==
    <<0>> \o <<decimals>> \o mint_authority

create_token_data(decimals, mint_authority) ==
    <<0>> \o <<decimals>> \o mint_authority \o <<0>>

\* Variant of create_token: mint is parsed before mintAuthority.
create_token_mint_first(payload) ==
    LET c1 == <<"from_str(mint)">>
        c2 == c1 \o <<"from_str(mintAuthority)">>
        mint_authority == Pubkey_from_str(payload.mintAuthority)
        mint == Pubkey_from_str(payload.mint)
    IN  IF ~mint.ok
        THEN BadRequest("Invalid mint pubkey", c1)
        ELSE IF ~mint_authority.ok
        THEN BadRequest("Invalid mintAuthority pubkey", c2)
        ELSE Ok([program_id |-> Pubkey_to_string(TokenProgramId),
                 accounts |-> AccountMetaInfo(
                     create_token_accounts(mint.bytes, mint_authority.bytes)),
                 instruction_data |-> base64_encode(
                     create_token_data(payload.decimals,
                                       mint_authority.bytes))],
                c2)

create_token(payload) ==
    LET c1 == <<"from_str(mintAuthority)">>
        c2 == c1 \o <<"from_str(mint)">>
        mint_authority == Pubkey_from_str(payload.mintAuthority)
        mint == Pubkey_from_str(payload.mint)
    IN  IF ~mint_authority.ok
        THEN BadRequest("Invalid mintAuthority pubkey", c1)
        ELSE IF ~mint.ok
        THEN BadRequest("Invalid mint pubkey", c2)
        ELSE Ok([program_id |-> Pubkey_to_string(TokenProgramId),
                 accounts |-> AccountMetaInfo(
                     create_token_accounts(mint.bytes, mint_authority.bytes)),
                 instruction_data |-> base64_encode(
                     create_token_data(payload.decimals,
                                       mint_authority.bytes))],
                c2)

(***************************************************************************)
(* mint_token                                                              *)
(***************************************************************************)
\* Variant of mint_token_accounts: destination listed before the mint.
mint_token_accounts_swapped(mint, destination, authority) ==
    <<AccountMeta_new(destination, FALSE),
      AccountMeta_new(mint, FALSE),
      AccountMeta_new_readonly(authority, TRUE)>>

mint_token_accounts(mint, destination, authority) ==
    <<AccountMeta_new(mint, FALSE),
      AccountMeta_new(destination, FALSE),
      AccountMeta_new_readonly(authority, TRUE)>>

mint_token_data(amount) == <<7>> \o to_le_bytes(amount)

mint_token(payload) ==
    LET c1 == <<"from_str(mint)">>
        c2 == c1 \o <<"from_str(destination)">>
        c3 == c2 \o <<"from_str(authority)">>
        mint == Pubkey_from_str(payload.mint)
        destination == Pubkey_from_str(payload.destination)
        authority == Pubkey_from_str(payload.authority)
    IN  IF ~mint.ok
        THEN BadRequest("Invalid mint pubkey", c1)
        ELSE IF ~destination.ok
        THEN BadRequest("Invalid destination pubkey", c2)
        ELSE IF ~authority.ok
        THEN BadRequest("Invalid authority pubkey", c3)
        ELSE Ok([program_id |-> Pubkey_to_string(TokenProgramId),
                 accounts |-> AccountMetaInfo(
                     mint_token_accounts(mint.bytes, destination.bytes,
                                         authority.bytes)),
                 instruction_data |-> base64_encode(
                     mint_token_data(payload.amount))],
                c3)

(***************************************************************************)
(* verify_message                                                          *)
(***************************************************************************)
\* Variant of verify_message_result: a signature that does not verify is
\* reported as an error.
verify_message_result_strict(valid, payload, made) ==
    IF valid
    THEN Ok([valid |-> valid, message |-> payload.message,
             pubkey |-> payload.pubkey], made)
    ELSE BadRequest("Signature verification failed", made)

\* VerifyMessageResponseData { valid, message, pubkey } in the envelope
verify_message_result(valid, payload, made) ==
    Ok([valid |-> valid, message |-> payload.message,
        pubkey |-> payload.pubkey], made)

\* Variant of verify_message: the signature is decoded before the key.
verify_message_signature_first(payload) ==
    LET c1 == <<"base64::decode(signature)">>
        c2 == c1 \o <<"Signature::from_bytes">>
        c3 == c2 \o <<"bs58::decode(pubkey)">>
        c4 == c3 \o <<"PublicKey::from_bytes">>
        c5 == c4 \o <<"PublicKey::verify">>
        pubkey_bytes == bs58_decode(payload.pubkey)
        pubkey == DalekPublicKey_from_bytes(pubkey_bytes.bytes)
        signature_bytes == base64_decode(payload.signature)
        signature == DalekSignature_from_bytes(signature_bytes.bytes)
    IN  IF ~signature_bytes.ok
        THEN BadRequest("Invalid base64 signature", c1)
        ELSE IF ~signature.ok
        THEN BadRequest("Invalid signature bytes", c2)
        ELSE IF ~pubkey_bytes.ok
        THEN BadRequest("Invalid base58 pubkey", c3)
        ELSE IF ~pubkey.ok
        THEN BadRequest("Invalid public key bytes", c4)
        ELSE verify_message_result(
                 DalekVerify(pubkey.key, as_bytes(payload.message),
                             signature.sig),
                 payload, c5)

verify_message(payload) ==
    LET c1 == <<"bs58::decode(pubkey)">>
        c2 == c1 \o <<"PublicKey::from_bytes">>
        c3 == c2 \o <<"base64::decode(signature)">>
        c4 == c3 \o <<"Signature::from_bytes">>
        c5 == c4 \o <<"PublicKey::verify">>
        pubkey_bytes == bs58_decode(payload.pubkey)
        pubkey == DalekPublicKey_from_bytes(pubkey_bytes.bytes)
        signature_bytes == base64_decode(payload.signature)
        signature == DalekSignature_from_bytes(signature_bytes.bytes)
    IN  IF ~pubkey_bytes.ok
        THEN BadRequest("Invalid base58 pubkey", c1)
        ELSE IF ~pubkey.ok
        THEN BadRequest("Invalid public key bytes", c2)
        ELSE IF ~signature_bytes.ok
        THEN BadRequest("Invalid base64 signature", c3)
        ELSE IF ~signature.ok
        THEN BadRequest("Invalid signature bytes", c4)
        ELSE verify_message_result(
                 DalekVerify(pubkey.key, as_bytes(payload.message),
                             signature.sig),
                 payload, c5)

(***************************************************************************)
(* send_sol                                                                *)
(***************************************************************************)
\* Variant of is_zero: the positivity check left out.
is_zero_unchecked(amount) == FALSE

\* payload.lamports == 0, payload.amount == 0
is_zero(amount) == amount = U64(0)

send_sol_data(lamports) == <<2>> \o to_le_bytes(lamports)

\* Variant of send_sol: the amount is checked before the addresses.
send_sol_amount_first(payload) ==
    LET c1 == <<"lamports == 0">>
        c2 == c1 \o <<"from_str(from)">>
        c3 == c2 \o <<"from_str(to)">>
        from_pubkey == Pubkey_from_str(payload.from)
        to_pubkey == Pubkey_from_str(payload.to)
    IN  IF is_zero(payload.lamports)
        THEN BadRequest("Lamports must be greater than zero", c1)
        ELSE IF ~from_pubkey.ok
        THEN BadRequest("Invalid sender pubkey", c2)
        ELSE IF ~to_pubkey.ok
        THEN BadRequest("Invalid recipient pubkey", c3)
        ELSE Ok([program_id |-> Pubkey_to_string(SystemProgramId),
                 accounts |-> <<Pubkey_to_string(from_pubkey.bytes),
                                Pubkey_to_string(to_pubkey.bytes)>>,
                 instruction_data |-> base64_encode(
                     send_sol_data(payload.lamports))],
                c3)

send_sol(payload) ==
    LET c1 == <<"from_str(from)">>
        c2 == c1 \o <<"from_str(to)">>
        c3 == c2 \o <<"lamports == 0">>
        from_pubkey == Pubkey_from_str(payload.from)
        to_pubkey == Pubkey_from_str(payload.to)
    IN  IF ~from_pubkey.ok
        THEN BadRequest("Invalid sender pubkey", c1)
        ELSE IF ~to_pubkey.ok
        THEN BadRequest("Invalid recipient pubkey", c2)
        ELSE IF is_zero(payload.lamports)
        THEN BadRequest("Lamports must be greater than zero", c3)
        ELSE Ok([program_id |-> Pubkey_to_string(SystemProgramId),
                 accounts |-> <<Pubkey_to_string(from_pubkey.bytes),
                                Pubkey_to_string(to_pubkey.bytes)>>,
                 instruction_data |-> base64_encode(
                     send_sol_data(payload.lamports))],
                c3)

(***************************************************************************)
(* send_token                                                              *)
(***************************************************************************)
send_token_accounts(destination, mint, owner) ==
    <<[pubkey |-> Pubkey_to_string(destination), isSigner |-> FALSE],
      [pubkey |-> Pubkey_to_string(mint), isSigner |-> FALSE],
      [pubkey |-> Pubkey_to_string(owner), isSigner |-> TRUE]>>

send_token_data(amount) == <<3>> \o to_le_bytes(amount)

send_token(payload) ==
    LET c1 == <<"from_str(destination)">>
        c2 == c1 \o <<"from_str(mint)">>
        c3 == c2 \o <<"from_str(owner)">>
        c4 == c3 \o <<"amount == 0">>
        destination == Pubkey_from_str(payload.destination)
        mint == Pubkey_from_str(payload.mint)
        owner == Pubkey_from_str(payload.owner)
    IN  IF ~destination.ok
        THEN BadRequest("Invalid destination pubkey", c1)
        ELSE IF ~mint.ok
        THEN BadRequest("Invalid mint pubkey", c2)
        ELSE IF ~owner.ok
        THEN BadRequest("Invalid owner pubkey", c3)
        ELSE IF is_zero(payload.amount)
        THEN BadRequest("Amount must be greater than zero", c4)
        ELSE Ok([program_id |-> Pubkey_to_string(TokenProgramId),
                 accounts |-> send_token_accounts(destination.bytes,
                                                  mint.bytes, owner.bytes),
                 instruction_data |-> base64_encode(
                     send_token_data(payload.amount))],
                c4)

(***************************************************************************)
(* The requests the model draws.                                           *)
(***************************************************************************)
ValidAddressTexts == {SystemProgramText, TOKEN_PROGRAM_TEXT, Key1Text}

InvalidAddressTexts == {BadCharText, ShortText, TooLongText}

AddressTexts == ValidAddressTexts \cup InvalidAddressTexts

Decimals == (0..MaxSmallDecimals) \cup {255}

Amounts ==
    {U64(n) : n \in 0..MaxSmallAmount} \cup {U64(1000), U64_MIXED, U64_MAX}

PubkeyTexts == {Key1Text, Key2Text, BadCharText, ShortText, OffCurveText}

SignatureTexts ==
    {Sig1Text, Sig2Text, Sig1FlippedText, BadBase64Text, UnpaddedBase64Text,
     ShortSigText, Sig1HighSText}

Messages == {<<"h", "i">>, <<"h", "o">>, <<>>}

CreateTokenRequest ==
    [mintAuthority : AddressTexts, mint : AddressTexts, decimals : Decimals]

MintTokenRequest ==
    [mint : AddressTexts, destination : AddressTexts,
     authority : AddressTexts, amount : Amounts]

VerifyMessageRequest ==
    [message : Messages, signature : SignatureTexts, pubkey : PubkeyTexts]

SendSolRequest == [from : AddressTexts, to : AddressTexts, lamports : Amounts]

SendTokenRequest ==
    [destination : AddressTexts, mint : AddressTexts, owner : AddressTexts,
     amount : Amounts]

(***************************************************************************)
(* The service: a routed request runs its handler to completion, and the   *)
(* reply is sent before the next request of the connection is read.        *)
(***************************************************************************)
Init ==
    /\ pc = "idle"
    /\ handler = "none"
    /\ request = <<>>
    /\ response = <<>>
    /\ calls = <<>>

Reply(name, payload, r) ==
    /\ pc' = "replied"
    /\ handler' = name
    /\ request' = payload
    /\ response' = [status |-> r.status, body |-> r.body]
    /\ calls' = r.calls

GenerateKeypair ==
    /\ pc = "idle"
    /\ \E keypair \in KeypairSamples :
           Reply("generate_keypair", <<>>, generate_keypair(keypair))

CreateToken ==
    /\ pc = "idle"
    /\ \E payload \in CreateTokenRequest :
           Reply("create_token", payload, create_token(payload))

MintToken ==
    /\ pc = "idle"
    /\ \E payload \in MintTokenRequest :
           Reply("mint_token", payload, mint_token(payload))

VerifyMessage ==
    /\ pc = "idle"
    /\ \E payload \in VerifyMessageRequest :
           Reply("verify_message", payload, verify_message(payload))

SendSol ==
    /\ pc = "idle"
    /\ \E payload \in SendSolRequest :
           Reply("send_sol", payload, send_sol(payload))

SendToken ==
    /\ pc = "idle"
    /\ \E payload \in SendTokenRequest :
           Reply("send_token", payload, send_token(payload))

\* the reply leaves; nothing of the request is kept
SendResponse ==
    /\ pc = "replied"
    /\ pc' = "idle"
    /\ handler' = "none"
    /\ request' = <<>>
    /\ response' = <<>>
    /\ calls' = <<>>

Next ==
    \/ GenerateKeypair
    \/ CreateToken
    \/ MintToken
    \/ VerifyMessage
    \/ SendSol
    \/ SendToken
    \/ SendResponse

Spec == Init /\ [][Next]_vars

(***************************************************************************)
(* Properties.                                                             *)
(***************************************************************************)
Replied(name) == pc = "replied" /\ handler = name

\* the address text decodes to a 32-byte identifier
Decodes(text) == Pubkey_from_str(text).ok

IdOf(text) == Pubkey_from_str(text).bytes

\* the reply is the validation error msg and carries nothing else
IsError(msg) ==
    response = [status |-> 400, body |-> [success |-> FALSE, error |-> msg]]

IsSuccess ==
    /\ response.status = 200
    /\ DOMAIN response.body = {"success", "data"}
    /\ response.body.success = TRUE

\* the instruction payload of a successful builder reply
Payload == base64_decode(response.body.data.instruction_data)

\* C1: for every create_token request whose mintAuthority and mint decode,
\* and every decimals, the payload is 35 bytes: 0, decimals, the 32 raw bytes
\* of the mint authority, 0.
C1_MintInitPayload ==
    (Replied("create_token") /\ Decodes(request.mintAuthority)
        /\ Decodes(request.mint))
    => /\ IsSuccess
       /\ Payload.ok
       /\ Len(Payload.bytes) = 35
       /\ Payload.bytes[1] = 0
       /\ Payload.bytes[2] = request.decimals
       /\ SubSeq(Payload.bytes, 3, 34) = IdOf(request.mintAuthority)
       /\ Payload.bytes[35] = 0

C1_Witness ==
    /\ Replied("create_token")
    /\ request.mintAuthority = Key1Text
    /\ request.mint = TOKEN_PROGRAM_TEXT
    /\ request.decimals = 255
    /\ response.status = 200
    /\ Payload.bytes = <<0, 255>> \o Public1 \o <<0>>

\* C2: for every valid create_token request the account list is the mint
\* (writable, not signer) followed by the mint authority (read-only, signer).
C2_MintInitAccounts ==
    (Replied("create_token") /\ Decodes(request.mintAuthority)
        /\ Decodes(request.mint))
    => response.body.data.accounts =
           << [pubkey |-> Pubkey_to_string(IdOf(request.mint)),
               is_signer |-> FALSE, is_writable |-> TRUE],
              [pubkey |-> Pubkey_to_string(IdOf(request.mintAuthority)),
               is_signer |-> TRUE, is_writable |-> FALSE] >>

\* C3: every accepted amount gives a 9-byte payload in mint_token, send_token
\* and send_sol: the byte 7, 3 or 2, then the amount little-endian in 8
\* bytes, which decode back to the amount (1000 is E8 03 00 .. 00).
C3_AmountPayload ==
    \A h \in {"mint_token", "send_token", "send_sol"} :
        (Replied(h) /\ response.status = 200)
        => LET amount == IF h = "send_sol" THEN request.lamports
                         ELSE request.amount
               first == CASE h = "mint_token" -> 7
                          [] h = "send_token" -> 3
                          [] h = "send_sol" -> 2
           IN  /\ Payload.ok
               /\ Len(Payload.bytes) = 9
               /\ Payload.bytes[1] = first
               /\ from_le_bytes(SubSeq(Payload.bytes, 2, 9)) = amount
               /\ amount = U64(1000)
                  => SubSeq(Payload.bytes, 2, 9) = <<232, 3, 0, 0, 0, 0, 0, 0>>
               /\ amount = U64_MIXED
                  => SubSeq(Payload.bytes, 2, 9) = <<8, 7, 6, 5, 4, 3, 2, 1>>

C3_Witness ==
    /\ Replied("mint_token")
    /\ request.amount = U64(0)
    /\ response.status = 200
    /\ Payload.bytes = <<7, 0, 0, 0, 0, 0, 0, 0, 0>>

\* C4: with every address valid, send_sol and send_token answer amount 0 with
\* a validation error and no data and accept every other amount; mint_token
\* accepts every amount, 0 included.
C4_ZeroAmount ==
    /\ (Replied("send_sol") /\ Decodes(request.from) /\ Decodes(request.to))
       => IF request.lamports = U64(0)
          THEN IsError("Lamports must be greater than zero")
          ELSE IsSuccess /\ Payload.ok
    /\ (Replied("send_token") /\ Decodes(request.destination)
            /\ Decodes(request.mint) /\ Decodes(request.owner))
       => IF request.amount = U64(0)
          THEN IsError("Amount must be greater than zero")
          ELSE IsSuccess /\ Payload.ok
    /\ (Replied("mint_token") /\ Decodes(request.mint)
            /\ Decodes(request.destination) /\ Decodes(request.authority))
       => IsSuccess /\ Payload.ok

C4_Witness ==
    /\ Replied("send_token")
    /\ request.destination = Key1Text
    /\ request.mint = TOKEN_PROGRAM_TEXT
    /\ request.owner = SystemProgramText
    /\ request.amount = U64(0)
    /\ response.status = 400

\* The reply to a request whose address fields, in validation order, are
\* fields (text and error message of each): when field i is the first that
\* does not decode, the reply is its error alone and no later field was
\* looked at.
FailsFast(fields) ==
    \A i \in 1..Len(fields) :
        (~Decodes(fields[i].text)
            /\ \A j \in 1..(i - 1) : Decodes(fields[j].text))
        => IsError(fields[i].error) /\ Len(calls) = i

\* C5: each builder validates its address fields in a fixed order
\* (create_token: mintAuthority, mint; mint_token: mint, destination,
\* authority; send_sol: from, to; send_token: destination, mint, owner); the
\* first field that does not decode decides the reply, whatever the later
\* fields are, and the reply has no program id, accounts or data.
C5_FirstInvalidField ==
    /\ Replied("create_token") =>
         FailsFast(<<
           [text |-> request.mintAuthority,
            error |-> "Invalid mintAuthority pubkey"],
           [text |-> request.mint, error |-> "Invalid mint pubkey"]>>)
    /\ Replied("mint_token") =>
         FailsFast(<<
           [text |-> request.mint, error |-> "Invalid mint pubkey"],
           [text |-> request.destination,
            error |-> "Invalid destination pubkey"],
           [text |-> request.authority,
            error |-> "Invalid authority pubkey"]>>)
    /\ Replied("send_sol") =>
         FailsFast(<<
           [text |-> request.from, error |-> "Invalid sender pubkey"],
           [text |-> request.to, error |-> "Invalid recipient pubkey"]>>)
    /\ Replied("send_token") =>
         FailsFast(<<
           [text |-> request.destination,
            error |-> "Invalid destination pubkey"],
           [text |-> request.mint, error |-> "Invalid mint pubkey"],
           [text |-> request.owner, error |-> "Invalid owner pubkey"]>>)

C5_Witness ==
    /\ Replied("create_token")
    /\ request.mintAuthority = BadCharText
    /\ request.mint = ShortText
    /\ response.body.error = "Invalid mintAuthority pubkey"

\* the public key text of a verify_message request is base-58
KeyDecodes == bs58_decode(request.pubkey).ok

\* ... and its bytes are a public key
KeyWellFormed ==
    KeyDecodes /\ DalekPublicKey_from_bytes(bs58_decode(request.pubkey).bytes).ok

\* the signature text of a verify_message request is base64
SignatureDecodes == base64_decode(request.signature).ok

\* ... and its bytes are a signature
SignatureWellFormed ==
    /\ SignatureDecodes
    /\ DalekSignature_from_bytes(base64_decode(request.signature).bytes).ok

\* C6: when the key and the signature are well-formed, verify_message
\* succeeds whether or not the signature verifies: valid says which, and the
\* message and pubkey text are echoed; an error is returned only when a
\* decode or structural check fails.
C6_MismatchIsNotAnError ==
    Replied("verify_message") =>
        /\ (KeyWellFormed /\ SignatureWellFormed)
           => /\ IsSuccess
              /\ response.body.data.valid =
                     DalekVerify(bs58_decode(request.pubkey).bytes,
                                 as_bytes(request.message),
                                 base64_decode(request.signature).bytes)
              /\ response.body.data.message = request.message
              /\ response.body.data.pubkey = request.pubkey
              /\ DOMAIN response.body.data = {"valid", "message", "pubkey"}
        /\ (request.pubkey = Key1Text /\ request.signature = Sig1Text)
           => IsSuccess
              /\ response.body.data.valid = (request.message = <<"h", "i">>)
        /\ response.status # 200
           => ~(KeyWellFormed /\ SignatureWellFormed)

C6_Witness ==
    /\ Replied("verify_message")
    /\ request.pubkey = Key1Text
    /\ request.signature = Sig1FlippedText
    /\ request.message = <<"h", "i">>
    /\ response.status = 200
    /\ response.body.data.valid = FALSE

\* C7: verify_message checks, in this order, the key's base-58 decoding, the
\* key's bytes, the signature's base64 decoding and the signature's bytes;
\* the first check that fails gives its own error, and nothing is verified
\* after it.
C7_VerifyCheckOrder ==
    Replied("verify_message") =>
        /\ ~KeyDecodes => IsError("Invalid base58 pubkey") /\ Len(calls) = 1
        /\ (KeyDecodes /\ ~KeyWellFormed)
           => IsError("Invalid public key bytes") /\ Len(calls) = 2
        /\ (KeyWellFormed /\ ~SignatureDecodes)
           => IsError("Invalid base64 signature") /\ Len(calls) = 3
        /\ (KeyWellFormed /\ SignatureDecodes /\ ~SignatureWellFormed)
           => IsError("Invalid signature bytes") /\ Len(calls) = 4
        /\ response.status = 400
           => \A i \in 1..Len(calls) : calls[i] # "PublicKey::verify"
        /\ response.status = 200 => calls[Len(calls)] = "PublicKey::verify"

C7_Witness ==
    /\ Replied("verify_message")
    /\ request.pubkey = BadCharText
    /\ request.signature = BadBase64Text
    /\ response.body.error = "Invalid base58 pubkey"

\* C8: for every valid mint_token request the account list is the mint
\* (writable, not signer), the destination (writable, not signer) and the
\* authority (read-only, signer), and the program id is the token program's.
C8_MintToAccounts ==
    (Replied("mint_token") /\ Decodes(request.mint)
        /\ Decodes(request.destination) /\ Decodes(request.authority))
    => /\ IsSuccess
       /\ response.body.data.accounts =
              << [pubkey |-> Pubkey_to_string(IdOf(request.mint)),
                  is_signer |-> FALSE, is_writable |-> TRUE],
                 [pubkey |-> Pubkey_to_string(IdOf(request.destination)),
                  is_signer |-> FALSE, is_writable |-> TRUE],
                 [pubkey |-> Pubkey_to_string(IdOf(request.authority)),
                  is_signer |-> TRUE, is_writable |-> FALSE] >>
       /\ response.body.data.program_id = TOKEN_PROGRAM_TEXT

C8_Witness ==
    /\ Replied("mint_token")
    /\ request.mint = Key1Text
    /\ request.destination = SystemProgramText
    /\ request.authority = TOKEN_PROGRAM_TEXT
    /\ response.status = 200
    /\ response.body.data.accounts[1].pubkey = Key1Text
    /\ response.body.data.accounts[2].pubkey = SystemProgramText
    /\ response.body.data.accounts[3].pubkey = TOKEN_PROGRAM_TEXT

\* C9: send_sol and send_token validate every address before the amount: a
\* request with an invalid address and amount 0 gets the error of its first
\* invalid address, and the zero-amount error only comes when every address
\* is valid.
C9_AddressesBeforeAmount ==
    /\ Replied("send_sol") =>
         /\ (request.lamports = U64(0) /\ ~Decodes(request.from))
            => IsError("Invalid sender pubkey")
         /\ (request.lamports = U64(0) /\ Decodes(request.from)
                /\ ~Decodes(request.to))
            => IsError("Invalid recipient pubkey")
         /\ IsError("Lamports must be greater than zero")
            => Decodes(request.from) /\ Decodes(request.to)
    /\ Replied("send_token") =>
         /\ (request.amount = U64(0) /\ ~Decodes(request.destination))
            => IsError("Invalid destination pubkey")
         /\ (request.amount = U64(0) /\ Decodes(request.destination)
                /\ ~Decodes(request.mint))
            => IsError("Invalid mint pubkey")
         /\ (request.amount = U64(0) /\ Decodes(request.destination)
                /\ Decodes(request.mint) /\ ~Decodes(request.owner))
            => IsError("Invalid owner pubkey")
         /\ IsError("Amount must be greater than zero")
            => /\ Decodes(request.destination)
               /\ Decodes(request.mint)
               /\ Decodes(request.owner)

C9_Witness ==
    /\ Replied("send_sol")
    /\ request.from = Key1Text
    /\ request.to = TooLongText
    /\ request.lamports = U64(0)
    /\ response.body.error = "Invalid recipient pubkey"

\* C10: every reply of every handler is either status 200 with success =
\* true, a data field and no error field, or status 400 with success = false,
\* an error text and no data field.
C10_Envelope ==
    pc = "replied" =>
        \/ /\ response.status = 200
           /\ DOMAIN response.body = {"success", "data"}
           /\ response.body.success = TRUE
        \/ /\ response.status = 400
           /\ DOMAIN response.body = {"success", "error"}
           /\ response.body.success = FALSE
           /\ response.body.error \in STRING

C10_Witness ==
    /\ Replied("verify_message")
    /\ response.status = 400
    /\ response.body.success = FALSE
    /\ "data" \notin DOMAIN response.body

=============================================================================
